---- MODULE Spec2Model ----
(***************************************************************************)
(* The asynchronous operation facade of redis_ts (src/async_commands.rs):  *)
(* trait AsyncTsCommands.  Every method builds one redis command, hands it *)
(* to the connection with query_async, suspends, and returns the decoded   *)
(* reply.  The argument encoders (TsOptions, TsRangeQuery, TsFilterOptions,*)
(* TsAggregationType) and the reply decoders (TsInfo, TsRange, TsMrange,   *)
(* TsMget) live in crate::types, which the facade only imports; they are   *)
(* modelled from the written specification (sections 4.1 to 4.5).          *)
(***************************************************************************)
EXTENDS Integers, Sequences, FiniteSets, TLC

VARIABLES
    pc,      \* pc[t]: position of task t's current invocation
    inv,     \* inv[t]: the operation and the inputs of the invocation
    sent,    \* sent[t]: the command the invocation handed to the transport
    calls,   \* calls[t]: transport calls issued by the invocation
    reply,   \* reply[t]: what the transport resolved the call with
    result   \* result[t]: what the invocation returned to its caller

vars == <<pc, inv, sent, calls, reply, result>>

(***************************************************************************)
(* Bounds of the model.                                                    *)
(***************************************************************************)
NumTasks == 2

Tasks == 1..NumTasks

(***************************************************************************)
(* Option<T>, RedisResult<T>.                                              *)
(***************************************************************************)
None == <<>>
Some(x) == <<x>>

Ok(v) == [ok |-> TRUE, v |-> v]
Err(e) == [ok |-> FALSE, e |-> e]

(***************************************************************************)
(* Wire tokens.  Integers are written in decimal (ToRedisArgs for the      *)
(* integer types); strings are written as they are.                        *)
(***************************************************************************)
Digit(d) ==
    CASE d = 0 -> "0" [] d = 1 -> "1" [] d = 2 -> "2" [] d = 3 -> "3"
      [] d = 4 -> "4" [] d = 5 -> "5" [] d = 6 -> "6" [] d = 7 -> "7"
      [] d = 8 -> "8" [] d = 9 -> "9"

RECURSIVE ToStr(_)
ToStr(n) == IF n < 10 THEN Digit(n) ELSE ToStr(n \div 10) \o Digit(n % 10)

\* What one ToRedisArgs value writes: its tokens, or a rejection.
Tokens(ts) == [rejected |-> FALSE, tokens |-> ts]
Rejected == [rejected |-> TRUE, tokens |-> <<>>]

StrArg(s) == Tokens(<<s>>)
IntArg(n) == Tokens(<<ToStr(n)>>)

RECURSIVE Flatten(_)
Flatten(ss) == IF ss = <<>> THEN <<>> ELSE Head(ss) \o Flatten(Tail(ss))

(***************************************************************************)
(* 4.1 Aggregation descriptor: AGGREGATION <MNEMONIC> <bucket>.            *)
(***************************************************************************)
Mnemonic(f) ==
    CASE f = "avg" -> "AVG" [] f = "sum" -> "SUM" [] f = "min" -> "MIN"
      [] f = "max" -> "MAX" [] f = "range" -> "RANGE" [] f = "count" -> "COUNT"
      [] f = "first" -> "FIRST" [] f = "last" -> "LAST"
      [] f = "std.p" -> "STD.P" [] f = "std.s" -> "STD.S"
      [] f = "var.p" -> "VAR.P" [] f = "var.s" -> "VAR.S" [] f = "twa" -> "TWA"

TsAggregationType(a) ==
    Tokens(<<"AGGREGATION", Mnemonic(a.function), ToStr(a.bucket)>>)

(***************************************************************************)
(* 4.2 Series configuration: RETENTION, CHUNK_SIZE, DUPLICATE_POLICY,      *)
(* UNCOMPRESSED (only if explicitly true), LABELS, each only when set.     *)
(***************************************************************************)
\* The label pairs of a configuration carry distinct names.
LabelTokens(labels) == Flatten([i \in 1..Len(labels) |-> labels[i]])

TsOptions(o) ==
    Tokens(
        (IF o.retention_time = None THEN <<>>
            ELSE <<"RETENTION", ToStr(o.retention_time[1])>>)
     \o (IF o.chunk_size = None THEN <<>>
            ELSE <<"CHUNK_SIZE", ToStr(o.chunk_size[1])>>)
     \o (IF o.duplicate_policy = None THEN <<>>
            ELSE <<"DUPLICATE_POLICY", o.duplicate_policy[1]>>)
     \o (IF o.uncompressed = Some(TRUE) THEN <<"UNCOMPRESSED">> ELSE <<>>)
     \o (IF o.labels = <<>> THEN <<>> ELSE <<"LABELS">> \o LabelTokens(o.labels)))

\* TsOptions::uncompressed(value): the builder that sets the flag.
uncompressed(o, value) == [o EXCEPT !.uncompressed = Some(value)]

(***************************************************************************)
(* 4.3 Filter expression set: one token per predicate, then the trailing   *)
(* options; an empty predicate list is rejected before any token.          *)
(***************************************************************************)
RECURSIVE Join(_)
Join(vs) ==
    IF Len(vs) = 1 THEN vs[1] ELSE vs[1] \o "," \o Join(Tail(vs))

Predicate(p) ==
    CASE p.kind = "equals" -> p.label \o "=" \o p.value
      [] p.kind = "not_equals" -> p.label \o "!=" \o p.value
      [] p.kind = "exists" -> p.label \o "="
      [] p.kind = "not_exists" -> p.label \o "!="
      [] p.kind = "in_set" -> p.label \o "=(" \o Join(p.values) \o ")"
      [] p.kind = "not_in_set" -> p.label \o "!=(" \o Join(p.values) \o ")"

PredicateTokens(fs) == [i \in 1..Len(fs) |-> Predicate(fs[i])]

TsFilterOptions(f) ==
    IF f.filters = <<>> THEN Rejected
    ELSE Tokens(
            PredicateTokens(f.filters)
         \o (IF f.with_labels THEN <<"WITHLABELS">> ELSE <<>>)
         \o (IF f.selected_labels = <<>> THEN <<>>
                ELSE <<"SELECTED_LABELS">> \o f.selected_labels)
         \o (IF f.count = None THEN <<>> ELSE <<"COUNT", ToStr(f.count[1])>>))

\* TsFilterOptions::get_filters(): the predicate list itself, which the
\* caller then writes as a plain list of tokens.
get_filters(f) == Tokens(PredicateTokens(f.filters))

(***************************************************************************)
(* 4.4 Range query: FROMTIMESTAMP start TOTIMESTAMP end, COUNT,            *)
(* FILTER_BY_VALUE, ALIGN, aggregation block.                              *)
(***************************************************************************)
TsRangeQuery(q) ==
    Tokens(
        <<"FROMTIMESTAMP", IF q.from = None THEN "-" ELSE ToStr(q.from[1]),
          "TOTIMESTAMP", IF q.to = None THEN "+" ELSE ToStr(q.to[1])>>
     \o (IF q.count = None THEN <<>> ELSE <<"COUNT", ToStr(q.count[1])>>)
     \o (IF q.filter_by_value = None THEN <<>>
            ELSE <<"FILTER_BY_VALUE", ToStr(q.filter_by_value[1][1]),
                   ToStr(q.filter_by_value[1][2])>>)
     \o (IF q.align = None THEN <<>> ELSE <<"ALIGN", ToStr(q.align[1])>>)
     \o (IF q.aggregation = None THEN <<>>
            ELSE TsAggregationType(q.aggregation[1]).tokens))

\* ToRedisArgs for f64 values, held here in tenths: 215 is 21.5.
F64Str(v) == ToStr(v \div 10) \o "." \o ToStr(v % 10)

F64Arg(v) == Tokens(<<F64Str(v)>>)

\* ToRedisArgs for a slice of (key, timestamp, value) tuples: flattened.
MaddArgs(values) ==
    Tokens(Flatten([i \in 1..Len(values) |->
        <<values[i][1], ToStr(values[i][2]), F64Str(values[i][3])>>]))

(***************************************************************************)
(* redis::cmd and Cmd::arg: a fresh command with no arguments, and the     *)
(* append of one value's tokens.  A value whose encoder rejects it aborts  *)
(* the construction.                                                       *)
(***************************************************************************)
NoCmd == [name |-> "", args |-> <<>>, rejected |-> FALSE]

\* A command constructor that reuses the argument buffer of a command still
\* in flight instead of starting from an empty one.
cmd_stale(command) ==
    [name |-> command,
     args |-> IF \E u \in Tasks : pc[u] = "suspended"
                THEN sent[CHOOSE u \in Tasks : pc[u] = "suspended"].args
                ELSE <<>>,
     rejected |-> FALSE]

cmd(command) == [name |-> command, args |-> <<>>, rejected |-> FALSE]

arg(c, a) ==
    IF c.rejected THEN c
    ELSE IF a.rejected THEN [c EXCEPT !.rejected = TRUE]
    ELSE [c EXCEPT !.args = @ \o a.tokens]

(***************************************************************************)
(* The command each operation of AsyncTsCommands builds.                   *)
(***************************************************************************)
ts_info_cmd(key) == arg(cmd("TS.INFO"), StrArg(key))

ts_create_cmd(key, options) ==
    arg(arg(cmd("TS.CREATE"), StrArg(key)), TsOptions(options))

\* ts_alter passing the caller's options on as they are.
ts_alter_cmd_keep(key, options) ==
    arg(arg(cmd("TS.ALTER"), StrArg(key)), TsOptions(options))

ts_alter_cmd(key, options) ==
    arg(arg(cmd("TS.ALTER"), StrArg(key)), TsOptions(uncompressed(options, FALSE)))

ts_add_cmd(key, ts, value) ==
    arg(arg(arg(cmd("TS.ADD"), StrArg(key)), IntArg(ts)), F64Arg(value))

ts_add_now_cmd(key, value) ==
    arg(arg(arg(cmd("TS.ADD"), StrArg(key)), StrArg("*")), F64Arg(value))

\* ts_add_create writing the options before the sample.
ts_add_create_cmd_misordered(key, ts, value, options) ==
    arg(arg(arg(arg(cmd("TS.ADD"), StrArg(key)), TsOptions(options)),
            IntArg(ts)), F64Arg(value))

ts_add_create_cmd(key, ts, value, options) ==
    arg(arg(arg(arg(cmd("TS.ADD"), StrArg(key)), IntArg(ts)), F64Arg(value)),
        TsOptions(options))

ts_madd_cmd(values) == arg(cmd("TS.MADD"), MaddArgs(values))

ts_incrby_now_cmd(key, value) ==
    arg(arg(cmd("TS.INCRBY"), StrArg(key)), F64Arg(value))

ts_incrby_cmd(key, ts, value) ==
    arg(arg(arg(arg(cmd("TS.INCRBY"), StrArg(key)), F64Arg(value)),
            StrArg("TIMESTAMP")), IntArg(ts))

ts_incrby_create_cmd(key, ts, value, options) ==
    arg(arg(arg(arg(arg(cmd("TS.INCRBY"), StrArg(key)), F64Arg(value)),
                StrArg("TIMESTAMP")), IntArg(ts)), TsOptions(options))

ts_decrby_now_cmd(key, value) ==
    arg(arg(cmd("TS.DECRBY"), StrArg(key)), F64Arg(value))

\* ts_decrby writing its arguments in the order of its parameters.
ts_decrby_cmd_param_order(key, ts, value) ==
    arg(arg(arg(arg(cmd("TS.DECRBY"), StrArg(key)), StrArg("TIMESTAMP")),
            IntArg(ts)), F64Arg(value))

ts_decrby_cmd(key, ts, value) ==
    arg(arg(arg(arg(cmd("TS.DECRBY"), StrArg(key)), F64Arg(value)),
            StrArg("TIMESTAMP")), IntArg(ts))

ts_decrby_create_cmd(key, ts, value, options) ==
    arg(arg(arg(arg(arg(cmd("TS.DECRBY"), StrArg(key)), F64Arg(value)),
                StrArg("TIMESTAMP")), IntArg(ts)), TsOptions(options))

ts_createrule_cmd(source_key, dest_key, aggregation_type) ==
    arg(arg(arg(cmd("TS.CREATERULE"), StrArg(source_key)), StrArg(dest_key)),
        TsAggregationType(aggregation_type))

ts_deleterule_cmd(source_key, dest_key) ==
    arg(arg(cmd("TS.DELETERULE"), StrArg(source_key)), StrArg(dest_key))

ts_get_cmd(key) == arg(cmd("TS.GET"), StrArg(key))

ts_mget_cmd(filter_options) ==
    arg(cmd("TS.MGET"), TsFilterOptions(filter_options))

\* A range helper whose reverse form writes the query before the key.
range_drift(command, key, query) ==
    IF command = "TS.REVRANGE"
    THEN arg(arg(cmd(command), TsRangeQuery(query)), StrArg(key))
    ELSE arg(arg(cmd(command), StrArg(key)), TsRangeQuery(query))

range(command, key, query) ==
    arg(arg(cmd(command), StrArg(key)), TsRangeQuery(query))

ts_range_cmd(key, query) == range("TS.RANGE", key, query)

ts_revrange_cmd(key, query) == range("TS.REVRANGE", key, query)

mrange(command, query, filter_options) ==
    arg(arg(cmd(command), TsRangeQuery(query)), TsFilterOptions(filter_options))

ts_mrange_cmd(query, filter_options) ==
    mrange("TS.MRANGE", query, filter_options)

ts_mrevrange_cmd(query, filter_options) ==
    mrange("TS.MREVRANGE", query, filter_options)

ts_queryindex_cmd(filter_options) ==
    arg(cmd("TS.QUERYINDEX"), get_filters(filter_options))

\* The command of an invocation i = [op, ...inputs].
Build(i) ==
    CASE i.op = "ts_info" -> ts_info_cmd(i.key)
      [] i.op = "ts_create" -> ts_create_cmd(i.key, i.options)
      [] i.op = "ts_alter" -> ts_alter_cmd(i.key, i.options)
      [] i.op = "ts_add" -> ts_add_cmd(i.key, i.ts, i.value)
      [] i.op = "ts_add_now" -> ts_add_now_cmd(i.key, i.value)
      [] i.op = "ts_add_create" ->
            ts_add_create_cmd(i.key, i.ts, i.value, i.options)
      [] i.op = "ts_madd" -> ts_madd_cmd(i.values)
      [] i.op = "ts_incrby_now" -> ts_incrby_now_cmd(i.key, i.value)
      [] i.op = "ts_incrby" -> ts_incrby_cmd(i.key, i.ts, i.value)
      [] i.op = "ts_incrby_create" ->
            ts_incrby_create_cmd(i.key, i.ts, i.value, i.options)
      [] i.op = "ts_decrby_now" -> ts_decrby_now_cmd(i.key, i.value)
      [] i.op = "ts_decrby" -> ts_decrby_cmd(i.key, i.ts, i.value)
      [] i.op = "ts_decrby_create" ->
            ts_decrby_create_cmd(i.key, i.ts, i.value, i.options)
      [] i.op = "ts_createrule" ->
            ts_createrule_cmd(i.source_key, i.dest_key, i.aggregation_type)
      [] i.op = "ts_deleterule" -> ts_deleterule_cmd(i.source_key, i.dest_key)
      [] i.op = "ts_get" -> ts_get_cmd(i.key)
      [] i.op = "ts_mget" -> ts_mget_cmd(i.filter_options)
      [] i.op = "ts_range" -> ts_range_cmd(i.key, i.query)
      [] i.op = "ts_revrange" -> ts_revrange_cmd(i.key, i.query)
      [] i.op = "ts_mrange" -> ts_mrange_cmd(i.query, i.filter_options)
      [] i.op = "ts_mrevrange" -> ts_mrevrange_cmd(i.query, i.filter_options)
      [] i.op = "ts_queryindex" -> ts_queryindex_cmd(i.filter_options)

(***************************************************************************)
(* Reply values of the transport: Nil, Integer, BulkString, Array.         *)
(***************************************************************************)
Nil == [t |-> "nil"]
Integer(i) == [t |-> "int", i |-> i]
BulkString(s) == [t |-> "str", s |-> s]
Array(a) == [t |-> "arr", a |-> a]

\* The numerals that occur in replies, with the numbers they parse to.
IntText == [s \in {"1000"} |-> 1000]
F64Text == [s \in {"21.5", "2.5"} |-> IF s = "21.5" THEN 215 ELSE 25]

\* FromRedisValue for u64 and for f64 (in tenths): an integer reply, or a
\* bulk string holding a numeral.
ParseU64(r) ==
    CASE r.t = "int" -> Some(r.i)
      [] r.t = "str" -> IF r.s \in DOMAIN IntText THEN Some(IntText[r.s]) ELSE None
      [] OTHER -> None

ParseF64(r) ==
    CASE r.t = "int" -> Some(r.i * 10)
      [] r.t = "str" -> IF r.s \in DOMAIN F64Text THEN Some(F64Text[r.s]) ELSE None
      [] OTHER -> None

TypeError == Err("type_error")

\* FromRedisValue for the tuple (TS, V): exactly two elements, each parsed.
Pair(r) ==
    IF r.t = "arr" /\ Len(r.a) = 2
        /\ ParseU64(r.a[1]) # None /\ ParseF64(r.a[2]) # None
    THEN Ok([ts |-> ParseU64(r.a[1])[1], value |-> ParseF64(r.a[2])[1]])
    ELSE TypeError

\* FromRedisValue for Option<(TS, V)>: nil is None, anything else must be
\* a pair.
OptionPair(r) ==
    IF r.t = "nil" THEN Ok(None)
    ELSE IF Pair(r).ok THEN Ok(Some(Pair(r).v)) ELSE TypeError

\* 4.5 single-series range: an array of two-element entries, in order.
Points(r) ==
    IF r.t = "arr" /\ \A k \in 1..Len(r.a) : Pair(r.a[k]).ok
    THEN Ok([k \in 1..Len(r.a) |-> Pair(r.a[k]).v])
    ELSE TypeError

TsRange(r) == Points(r)

\* A label set: an array of (name, value) string pairs.
Labels(r) ==
    IF r.t = "arr"
        /\ \A k \in 1..Len(r.a) :
            /\ r.a[k].t = "arr" /\ Len(r.a[k].a) = 2
            /\ r.a[k].a[1].t = "str" /\ r.a[k].a[2].t = "str"
    THEN Ok([k \in 1..Len(r.a) |-> <<r.a[k].a[1].s, r.a[k].a[2].s>>])
    ELSE TypeError

\* 4.5 multi-range: entries (key, labels, points), in the reply's order.
MrangeEntry(e) ==
    e.t = "arr" /\ Len(e.a) = 3 /\ e.a[1].t = "str"
        /\ Labels(e.a[2]).ok /\ Points(e.a[3]).ok

TsMrange(r) ==
    IF r.t = "arr" /\ \A k \in 1..Len(r.a) : MrangeEntry(r.a[k])
    THEN Ok([k \in 1..Len(r.a) |->
            [key |-> r.a[k].a[1].s, labels |-> Labels(r.a[k].a[2]).v,
             values |-> Points(r.a[k].a[3]).v]])
    ELSE TypeError

\* 4.5 multi-get: entries (key, labels, point), the point empty for a
\* series without data.
MgetPoint(r) ==
    IF r.t = "arr" /\ r.a = <<>> THEN Ok(None)
    ELSE IF Pair(r).ok THEN Ok(Some(Pair(r).v)) ELSE TypeError

MgetEntry(e) ==
    e.t = "arr" /\ Len(e.a) = 3 /\ e.a[1].t = "str"
        /\ Labels(e.a[2]).ok /\ MgetPoint(e.a[3]).ok

TsMget(r) ==
    IF r.t = "arr" /\ \A k \in 1..Len(r.a) : MgetEntry(r.a[k])
    THEN Ok([k \in 1..Len(r.a) |->
            [key |-> r.a[k].a[1].s, labels |-> Labels(r.a[k].a[2]).v,
             value |-> MgetPoint(r.a[k].a[3]).v]])
    ELSE TypeError

\* 4.5 metadata: alternating field name, field value; a field the reply
\* does not carry keeps its default (counts 0, label set empty), a field
\* the decoder does not know is skipped.
RECURSIVE InfoField(_, _, _)
InfoField(a, name, default) ==
    IF a = <<>> THEN default
    ELSE IF a[1].s = name THEN a[2] ELSE InfoField(Tail(Tail(a)), name, default)

InfoCount(a, name) == InfoField(a, name, Integer(0))

InfoLabels(a) == InfoField(a, "labels", Array(<<>>))

TsInfo(r) ==
    IF /\ r.t = "arr" /\ Len(r.a) % 2 = 0
       /\ \A k \in 1..Len(r.a) : k % 2 = 1 => r.a[k].t = "str"
       /\ InfoCount(r.a, "totalSamples").t = "int"
       /\ InfoCount(r.a, "retentionTime").t = "int"
       /\ Labels(InfoLabels(r.a)).ok
    THEN Ok([total_samples |-> InfoCount(r.a, "totalSamples").i,
             retention_time |-> InfoCount(r.a, "retentionTime").i,
             labels |-> Labels(InfoLabels(r.a)).v])
    ELSE TypeError

\* FromRedisValue for Vec<String>: nil is the empty list, an array must
\* hold strings.
VecString(r) ==
    CASE r.t = "nil" -> Ok(<<>>)
      [] r.t = "arr" ->
            IF \A k \in 1..Len(r.a) : r.a[k].t = "str"
            THEN Ok([k \in 1..Len(r.a) |-> r.a[k].s]) ELSE TypeError
      [] OTHER -> TypeError

\* The caller's RV of the write operations, taken to be the reply itself.
Value(r) == Ok(r)

\* The decoder the return type of each operation selects.
Decode(op, r) ==
    CASE op = "ts_info" -> TsInfo(r)
      [] op = "ts_get" -> OptionPair(r)
      [] op = "ts_mget" -> TsMget(r)
      [] op \in {"ts_range", "ts_revrange"} -> TsRange(r)
      [] op \in {"ts_mrange", "ts_mrevrange"} -> TsMrange(r)
      [] op = "ts_queryindex" -> VecString(r)
      [] OTHER -> Value(r)

(***************************************************************************)
(* Completion of an invocation.  query_async returns the transport's error *)
(* when the call failed and the decoded reply otherwise; ts_get alone      *)
(* follows it with .or(Ok(None)).                                          *)
(***************************************************************************)
query_async(op, outcome) ==
    IF outcome.ok THEN Decode(op, outcome.v) ELSE outcome

or(r, alt) == IF r.ok THEN r ELSE alt

\* Every operation absorbing a failure the way ts_get does.
Complete_absorb_all(op, outcome) ==
    or(query_async(op, outcome), Ok(None))

\* ts_get without its .or(Ok(None)).
Complete_get_strict(op, outcome) == query_async(op, outcome)

\* The readers falling back to an empty result when the reply does not
\* decode.
Complete_lenient_decode(op, outcome) ==
    IF op = "ts_get" THEN or(query_async(op, outcome), Ok(None))
    ELSE IF outcome.ok /\ op \in {"ts_info", "ts_range", "ts_revrange",
                                  "ts_mrange", "ts_mrevrange"}
    THEN or(query_async(op, outcome), Ok(<<>>))
    ELSE query_async(op, outcome)

Complete(op, outcome) ==
    IF op = "ts_get" THEN or(query_async(op, outcome), Ok(None))
    ELSE query_async(op, outcome)

(***************************************************************************)
(* The inputs the callers draw from, and what the transport may answer.    *)
(***************************************************************************)
Keys == {"temp", "cpu"}
Timestamps == {1000}
Values == {215}

DefaultOptions ==
    [retention_time |-> None, chunk_size |-> None, duplicate_policy |-> None,
     uncompressed |-> None, labels |-> <<>>]

OptionsSet ==
    { DefaultOptions,
      [DefaultOptions EXCEPT !.retention_time = Some(3600000)],
      [DefaultOptions EXCEPT !.retention_time = Some(60000),
                             !.duplicate_policy = Some("last"),
                             !.uncompressed = Some(TRUE),
                             !.labels = << <<"sensor", "a">> >>] }

AllRange ==
    [from |-> None, to |-> None, count |-> None, filter_by_value |-> None,
     align |-> None, aggregation |-> None]

Queries ==
    { AllRange,
      [AllRange EXCEPT !.from = Some(1000), !.to = Some(2000),
                       !.count = Some(10),
                       !.aggregation = Some([function |-> "avg", bucket |-> 60])] }

NoFilter ==
    [filters |-> <<>>, with_labels |-> FALSE, selected_labels |-> <<>>,
     count |-> None]

Filters ==
    { NoFilter,
      [NoFilter EXCEPT !.filters =
            <<[kind |-> "equals", label |-> "sensor", value |-> "a"]>>],
      [NoFilter EXCEPT !.filters =
            <<[kind |-> "in_set", label |-> "room", values |-> <<"x", "y">>],
              [kind |-> "not_exists", label |-> "old"]>>,
                       !.with_labels = TRUE] }

Aggregations == {[function |-> "avg", bucket |-> 60]}

Samples == { << <<"temp", 1000, 215>> >>,
             << <<"temp", 1000, 215>>, <<"cpu", 1000, 215>> >> }

PointReply == Array(<<Integer(1000), BulkString("21.5")>>)

\* Replies every operation may get.
CommonReplies == {Nil, BulkString("OK")}

\* Replies of the shapes the readers decode, well formed or not.
ReaderReplies ==
    { PointReply,
      Array(<<BulkString("temp"), BulkString("cpu")>>),
      Array(<<>>),
      Array(<<PointReply>>),
      Array(<<Array(<<BulkString("b"), Array(<<>>), Array(<<PointReply>>)>>),
              Array(<<BulkString("a"), Array(<<>>), Array(<<>>)>>)>>),
      Array(<<Array(<<BulkString("b"), Array(<<>>), PointReply>>)>>),
      Array(<<BulkString("totalSamples"), Integer(1000),
              BulkString("chunkCount"), Integer(1)>>) }

Replies == CommonReplies \cup ReaderReplies

TransportErrors == {"io_error", "response_error"}

Readers ==
    {"ts_info", "ts_get", "ts_mget", "ts_range", "ts_revrange", "ts_mrange",
     "ts_mrevrange", "ts_queryindex"}

Outcomes(op) ==
    {Err(e) : e \in TransportErrors}
        \cup {Ok(r) : r \in IF op \in Readers THEN Replies ELSE CommonReplies}

NoOutcome == [pending |-> TRUE]

(***************************************************************************)
(* The operations.  Calling one creates its future; the body of the future *)
(* runs when the future is polled.  range and mrange build their command   *)
(* in the call itself, the other operations inside the future.             *)
(***************************************************************************)
Init ==
    /\ pc = [t \in Tasks |-> "idle"]
    /\ inv = [t \in Tasks |-> [op |-> "none"]]
    /\ sent = [t \in Tasks |-> NoCmd]
    /\ calls = [t \in Tasks |-> 0]
    /\ reply = [t \in Tasks |-> NoOutcome]
    /\ result = [t \in Tasks |-> NoOutcome]

\* Where a call leaves the task: with a future to poll, or aborted when the
\* command was built in the call and an encoder rejected an argument.
Called(i, eager) ==
    IF eager /\ Build(i).rejected THEN "panicked" ELSE "created"

ts_info(t) ==
    /\ pc[t] = "idle"
    /\ \E key \in Keys :
            inv' = [inv EXCEPT ![t] = [op |-> "ts_info", key |-> key]]
    /\ pc' = [pc EXCEPT ![t] = Called(inv'[t], FALSE)]
    /\ UNCHANGED <<sent, calls, reply, result>>

ts_create(t) ==
    /\ pc[t] = "idle"
    /\ \E key \in Keys, options \in OptionsSet :
            inv' = [inv EXCEPT ![t] =
                [op |-> "ts_create",
                 key |-> key,
                 options |-> options]]
    /\ pc' = [pc EXCEPT ![t] = Called(inv'[t], FALSE)]
    /\ UNCHANGED <<sent, calls, reply, result>>

ts_alter(t) ==
    /\ pc[t] = "idle"
    /\ \E key \in Keys, options \in OptionsSet :
            inv' = [inv EXCEPT ![t] =
                [op |-> "ts_alter",
                 key |-> key,
                 options |-> options]]
    /\ pc' = [pc EXCEPT ![t] = Called(inv'[t], FALSE)]
    /\ UNCHANGED <<sent, calls, reply, result>>

ts_add(t) ==
    /\ pc[t] = "idle"
    /\ \E key \in Keys, ts \in Timestamps, value \in Values :
            inv' = [inv EXCEPT ![t] =
                [op |-> "ts_add",
                 key |-> key,
                 ts |-> ts,
                 value |-> value]]
    /\ pc' = [pc EXCEPT ![t] = Called(inv'[t], FALSE)]
    /\ UNCHANGED <<sent, calls, reply, result>>

ts_add_now(t) ==
    /\ pc[t] = "idle"
    /\ \E key \in Keys, value \in Values :
            inv' = [inv EXCEPT ![t] =
                [op |-> "ts_add_now",
                 key |-> key,
                 value |-> value]]
    /\ pc' = [pc EXCEPT ![t] = Called(inv'[t], FALSE)]
    /\ UNCHANGED <<sent, calls, reply, result>>

ts_add_create(t) ==
    /\ pc[t] = "idle"
    /\ \E key \in Keys, ts \in Timestamps, value \in Values, options \in OptionsSet :
            inv' = [inv EXCEPT ![t] =
                [op |-> "ts_add_create",
                 key |-> key,
                 ts |-> ts,
                 value |-> value,
                 options |-> options]]
    /\ pc' = [pc EXCEPT ![t] = Called(inv'[t], FALSE)]
    /\ UNCHANGED <<sent, calls, reply, result>>

ts_madd(t) ==
    /\ pc[t] = "idle"
    /\ \E values \in Samples :
            inv' = [inv EXCEPT ![t] = [op |-> "ts_madd", values |-> values]]
    /\ pc' = [pc EXCEPT ![t] = Called(inv'[t], FALSE)]
    /\ UNCHANGED <<sent, calls, reply, result>>

ts_incrby_now(t) ==
    /\ pc[t] = "idle"
    /\ \E key \in Keys, value \in Values :
            inv' = [inv EXCEPT ![t] =
                [op |-> "ts_incrby_now",
                 key |-> key,
                 value |-> value]]
    /\ pc' = [pc EXCEPT ![t] = Called(inv'[t], FALSE)]
    /\ UNCHANGED <<sent, calls, reply, result>>

ts_incrby(t) ==
    /\ pc[t] = "idle"
    /\ \E key \in Keys, ts \in Timestamps, value \in Values :
            inv' = [inv EXCEPT ![t] =
                [op |-> "ts_incrby",
                 key |-> key,
                 ts |-> ts,
                 value |-> value]]
    /\ pc' = [pc EXCEPT ![t] = Called(inv'[t], FALSE)]
    /\ UNCHANGED <<sent, calls, reply, result>>

ts_incrby_create(t) ==
    /\ pc[t] = "idle"
    /\ \E key \in Keys, ts \in Timestamps, value \in Values, options \in OptionsSet :
            inv' = [inv EXCEPT ![t] =
                [op |-> "ts_incrby_create",
                 key |-> key,
                 ts |-> ts,
                 value |-> value,
                 options |-> options]]
    /\ pc' = [pc EXCEPT ![t] = Called(inv'[t], FALSE)]
    /\ UNCHANGED <<sent, calls, reply, result>>

ts_decrby_now(t) ==
    /\ pc[t] = "idle"
    /\ \E key \in Keys, value \in Values :
            inv' = [inv EXCEPT ![t] =
                [op |-> "ts_decrby_now",
                 key |-> key,
                 value |-> value]]
    /\ pc' = [pc EXCEPT ![t] = Called(inv'[t], FALSE)]
    /\ UNCHANGED <<sent, calls, reply, result>>

ts_decrby(t) ==
    /\ pc[t] = "idle"
    /\ \E key \in Keys, ts \in Timestamps, value \in Values :
            inv' = [inv EXCEPT ![t] =
                [op |-> "ts_decrby",
                 key |-> key,
                 ts |-> ts,
                 value |-> value]]
    /\ pc' = [pc EXCEPT ![t] = Called(inv'[t], FALSE)]
    /\ UNCHANGED <<sent, calls, reply, result>>

ts_decrby_create(t) ==
    /\ pc[t] = "idle"
    /\ \E key \in Keys, ts \in Timestamps, value \in Values, options \in OptionsSet :
            inv' = [inv EXCEPT ![t] =
                [op |-> "ts_decrby_create",
                 key |-> key,
                 ts |-> ts,
                 value |-> value,
                 options |-> options]]
    /\ pc' = [pc EXCEPT ![t] = Called(inv'[t], FALSE)]
    /\ UNCHANGED <<sent, calls, reply, result>>

ts_createrule(t) ==
    /\ pc[t] = "idle"
    /\ \E source_key \in Keys, dest_key \in Keys, aggregation_type \in Aggregations :
        /\ source_key # dest_key
        /\ inv' = [inv EXCEPT ![t] =
                [op |-> "ts_createrule",
                 source_key |-> source_key,
                 dest_key |-> dest_key,
                 aggregation_type |-> aggregation_type]]
    /\ pc' = [pc EXCEPT ![t] = Called(inv'[t], FALSE)]
    /\ UNCHANGED <<sent, calls, reply, result>>

ts_deleterule(t) ==
    /\ pc[t] = "idle"
    /\ \E source_key \in Keys, dest_key \in Keys :
        /\ source_key # dest_key
        /\ inv' = [inv EXCEPT ![t] =
                [op |-> "ts_deleterule",
                 source_key |-> source_key,
                 dest_key |-> dest_key]]
    /\ pc' = [pc EXCEPT ![t] = Called(inv'[t], FALSE)]
    /\ UNCHANGED <<sent, calls, reply, result>>

ts_get(t) ==
    /\ pc[t] = "idle"
    /\ \E key \in Keys :
            inv' = [inv EXCEPT ![t] = [op |-> "ts_get", key |-> key]]
    /\ pc' = [pc EXCEPT ![t] = Called(inv'[t], FALSE)]
    /\ UNCHANGED <<sent, calls, reply, result>>

ts_mget(t) ==
    /\ pc[t] = "idle"
    /\ \E filter_options \in Filters :
            inv' = [inv EXCEPT ![t] =
                [op |-> "ts_mget",
                 filter_options |-> filter_options]]
    /\ pc' = [pc EXCEPT ![t] = Called(inv'[t], FALSE)]
    /\ UNCHANGED <<sent, calls, reply, result>>

ts_range(t) ==
    /\ pc[t] = "idle"
    /\ \E key \in Keys, query \in Queries :
            inv' = [inv EXCEPT ![t] =
                [op |-> "ts_range",
                 key |-> key,
                 query |-> query]]
    /\ pc' = [pc EXCEPT ![t] = Called(inv'[t], TRUE)]
    /\ UNCHANGED <<sent, calls, reply, result>>

ts_revrange(t) ==
    /\ pc[t] = "idle"
    /\ \E key \in Keys, query \in Queries :
            inv' = [inv EXCEPT ![t] =
                [op |-> "ts_revrange",
                 key |-> key,
                 query |-> query]]
    /\ pc' = [pc EXCEPT ![t] = Called(inv'[t], TRUE)]
    /\ UNCHANGED <<sent, calls, reply, result>>

ts_mrange(t) ==
    /\ pc[t] = "idle"
    /\ \E query \in Queries, filter_options \in Filters :
            inv' = [inv EXCEPT ![t] =
                [op |-> "ts_mrange",
                 query |-> query,
                 filter_options |-> filter_options]]
    /\ pc' = [pc EXCEPT ![t] = Called(inv'[t], TRUE)]
    /\ UNCHANGED <<sent, calls, reply, result>>

ts_mrevrange(t) ==
    /\ pc[t] = "idle"
    /\ \E query \in Queries, filter_options \in Filters :
            inv' = [inv EXCEPT ![t] =
                [op |-> "ts_mrevrange",
                 query |-> query,
                 filter_options |-> filter_options]]
    /\ pc' = [pc EXCEPT ![t] = Called(inv'[t], TRUE)]
    /\ UNCHANGED <<sent, calls, reply, result>>

ts_queryindex(t) ==
    /\ pc[t] = "idle"
    /\ \E filter_options \in Filters :
            inv' = [inv EXCEPT ![t] =
                [op |-> "ts_queryindex",
                 filter_options |-> filter_options]]
    /\ pc' = [pc EXCEPT ![t] = Called(inv'[t], FALSE)]
    /\ UNCHANGED <<sent, calls, reply, result>>

\* First poll of the future: the command is complete, query_async hands it
\* to the connection and the task suspends on the reply.
Poll(t) ==
    /\ pc[t] = "created"
    /\ IF Build(inv[t]).rejected
       THEN /\ pc' = [pc EXCEPT ![t] = "panicked"]
            /\ UNCHANGED <<sent, calls>>
       ELSE /\ pc' = [pc EXCEPT ![t] = "suspended"]
            /\ sent' = [sent EXCEPT ![t] = Build(inv[t])]
            /\ calls' = [calls EXCEPT ![t] = @ + 1]
    /\ UNCHANGED <<inv, reply, result>>

\* A completion that sends the command again when the transport failed.
Resolve_retry(t) ==
    /\ pc[t] = "suspended"
    /\ \E outcome \in Outcomes(inv[t].op) :
        IF outcome.ok
        THEN /\ reply' = [reply EXCEPT ![t] = outcome]
             /\ result' = [result EXCEPT ![t] = Complete(inv[t].op, outcome)]
             /\ pc' = [pc EXCEPT ![t] = "done"]
             /\ UNCHANGED <<inv, sent, calls>>
        ELSE /\ calls[t] < 2
             /\ calls' = [calls EXCEPT ![t] = @ + 1]
             /\ UNCHANGED <<pc, inv, sent, reply, result>>

\* The transport resolves the pending call; the future returns.
Resolve(t) ==
    /\ pc[t] = "suspended"
    /\ \E outcome \in Outcomes(inv[t].op) :
        /\ reply' = [reply EXCEPT ![t] = outcome]
        /\ result' = [result EXCEPT ![t] = Complete(inv[t].op, outcome)]
        /\ pc' = [pc EXCEPT ![t] = "done"]
    /\ UNCHANGED <<inv, sent, calls>>

\* The caller drops the future before it has returned.
Cancel(t) ==
    /\ pc[t] \in {"created", "suspended"}
    /\ pc' = [pc EXCEPT ![t] = "cancelled"]
    /\ UNCHANGED <<inv, sent, calls, reply, result>>

\* The caller has taken the outcome; the task is free to invoke again.
Return(t) ==
    /\ pc[t] \in {"done", "cancelled", "panicked"}
    /\ pc' = [pc EXCEPT ![t] = "idle"]
    /\ inv' = [inv EXCEPT ![t] = [op |-> "none"]]
    /\ sent' = [sent EXCEPT ![t] = NoCmd]
    /\ calls' = [calls EXCEPT ![t] = 0]
    /\ reply' = [reply EXCEPT ![t] = NoOutcome]
    /\ result' = [result EXCEPT ![t] = NoOutcome]

Next ==
    \E t \in Tasks :
        \/ ts_info(t) \/ ts_create(t) \/ ts_alter(t)
        \/ ts_add(t) \/ ts_add_now(t) \/ ts_add_create(t) \/ ts_madd(t)
        \/ ts_incrby_now(t) \/ ts_incrby(t) \/ ts_incrby_create(t)
        \/ ts_decrby_now(t) \/ ts_decrby(t) \/ ts_decrby_create(t)
        \/ ts_createrule(t) \/ ts_deleterule(t)
        \/ ts_get(t) \/ ts_mget(t)
        \/ ts_range(t) \/ ts_revrange(t) \/ ts_mrange(t) \/ ts_mrevrange(t)
        \/ ts_queryindex(t)
        \/ Poll(t) \/ Resolve(t) \/ Cancel(t) \/ Return(t)

Spec == Init /\ [][Next]_vars

(***************************************************************************)
(* Properties.                                                             *)
(***************************************************************************)
Elems(seq) == {seq[k] : k \in 1..Len(seq)}

Done(t) == pc[t] = "done"

\* The invocation of t has handed its command to the transport.
Sent(t) == pc[t] \in {"suspended", "done"}

TransportFailed(t) == Done(t) /\ ~reply[t].ok

\* C1: every operation other than ts_get whose transport call failed
\* returns exactly the transport's error, never a success value or a
\* default result.
C1_TransportErrorPropagates ==
    \A t \in Tasks :
        (TransportFailed(t) /\ inv[t].op # "ts_get")
            => (~result[t].ok /\ result[t] = reply[t])

C1_Witness ==
    \E t \in Tasks :
        /\ Done(t) /\ inv[t].op = "ts_add"
        /\ reply[t] = Err("response_error")
        /\ result[t] = Err("response_error")

\* A reply that is a well-formed point: exactly two elements, a timestamp
\* numeral and a value numeral.
IsTimestamp(x) == x.t = "int" \/ (x.t = "str" /\ x.s \in DOMAIN IntText)
IsValue(x) == x.t = "int" \/ (x.t = "str" /\ x.s \in DOMAIN F64Text)
WellFormedPoint(r) ==
    r.t = "arr" /\ Len(r.a) = 2 /\ IsTimestamp(r.a[1]) /\ IsValue(r.a[2])

\* C2: ts_get never returns an error; it returns Some(timestamp, value)
\* exactly when the transport succeeded with a well-formed two-element
\* reply, and None for nil, for any other reply and for a failed call.
C2_GetNeverFails ==
    \A t \in Tasks :
        (Done(t) /\ inv[t].op = "ts_get") =>
            /\ result[t].ok
            /\ IF reply[t].ok /\ WellFormedPoint(reply[t].v)
               THEN /\ Len(result[t].v) = 1
                    /\ reply[t].v = PointReply
                        => result[t].v = Some([ts |-> 1000, value |-> 215])
               ELSE result[t].v = None

C2_Witness ==
    \E t, u \in Tasks :
        /\ Done(t) /\ inv[t].op = "ts_get" /\ ~reply[t].ok
        /\ result[t] = Ok(None)
        /\ Done(u) /\ inv[u].op = "ts_get" /\ reply[u] = Ok(PointReply)
        /\ result[u] = Ok(Some([ts |-> 1000, value |-> 215]))

FilterOps == {"ts_mget", "ts_mrange", "ts_mrevrange", "ts_queryindex"}

\* C3: an operation that requires a filter, invoked with a filter set of
\* zero predicates, fails before any token is produced: no command is
\* handed to the transport.
C3_EmptyFilterRejected ==
    \A t \in Tasks :
        (inv[t].op \in FilterOps /\ inv[t].filter_options.filters = <<>>)
            => (~Sent(t) /\ sent[t] = NoCmd /\ calls[t] = 0)

\* C4: every invocation issues exactly one transport call between its
\* start and its completion: none before its suspend point, one from
\* there on, never a second whatever the reply or the error.
C4_ExactlyOneCall ==
    \A t \in Tasks :
        /\ calls[t] <= 1
        /\ pc[t] \in {"idle", "created", "panicked"} => calls[t] = 0
        /\ Sent(t) => (calls[t] = 1 /\ sent[t] # NoCmd)

C4_Witness ==
    \E t \in Tasks : TransportFailed(t) /\ calls[t] = 1

\* C5: ts_range and ts_revrange hand over the same arguments (key, then
\* the range tokens) and differ only in the command name; ts_mrange and
\* ts_mrevrange hand over the same arguments, the filter tokens after all
\* range tokens, and differ only in the command name.
C5_SharedRangeEncoding ==
    /\ \A t \in Tasks :
        Sent(t) =>
            /\ inv[t].op = "ts_range" =>
                /\ sent[t].name = "TS.RANGE"
                /\ sent[t].args = <<inv[t].key>> \o TsRangeQuery(inv[t].query).tokens
            /\ inv[t].op = "ts_revrange" =>
                /\ sent[t].name = "TS.REVRANGE"
                /\ sent[t].args = <<inv[t].key>> \o TsRangeQuery(inv[t].query).tokens
            /\ inv[t].op = "ts_mrange" =>
                /\ sent[t].name = "TS.MRANGE"
                /\ sent[t].args = TsRangeQuery(inv[t].query).tokens
                        \o TsFilterOptions(inv[t].filter_options).tokens
            /\ inv[t].op = "ts_mrevrange" =>
                /\ sent[t].name = "TS.MREVRANGE"
                /\ sent[t].args = TsRangeQuery(inv[t].query).tokens
                        \o TsFilterOptions(inv[t].filter_options).tokens
    /\ \A t, u \in Tasks :
        (Sent(t) /\ Sent(u)) =>
            /\ (inv[t].op = "ts_range" /\ inv[u].op = "ts_revrange"
                    /\ inv[t].key = inv[u].key /\ inv[t].query = inv[u].query)
                => sent[t].args = sent[u].args
            /\ (inv[t].op = "ts_mrange" /\ inv[u].op = "ts_mrevrange"
                    /\ inv[t].query = inv[u].query
                    /\ inv[t].filter_options = inv[u].filter_options)
                => sent[t].args = sent[u].args

C5_Witness ==
    \E t, u \in Tasks :
        /\ Sent(t) /\ Sent(u)
        /\ inv[t].op = "ts_range" /\ inv[u].op = "ts_revrange"
        /\ inv[t].key = inv[u].key /\ inv[t].query = inv[u].query
        /\ inv[t].query # AllRange
        /\ sent[t].args = sent[u].args /\ sent[t].name # sent[u].name

RetentionOnly == [DefaultOptions EXCEPT !.retention_time = Some(3600000)]

\* C6: the add operations send TS.ADD key timestamp value, ts_add_now with
\* "*" as the timestamp, ts_add_create followed by the configuration
\* tokens and nothing else; add(temp, 1000, 21.5, retention=3600000) sends
\* exactly TS.ADD temp 1000 21.5 RETENTION 3600000.
C6_AddTokenOrder ==
    \A t \in Tasks :
        Sent(t) =>
            /\ inv[t].op = "ts_add" =>
                /\ sent[t].name = "TS.ADD"
                /\ sent[t].args =
                    <<inv[t].key, ToStr(inv[t].ts), F64Str(inv[t].value)>>
            /\ inv[t].op = "ts_add_now" =>
                /\ sent[t].name = "TS.ADD"
                /\ sent[t].args = <<inv[t].key, "*", F64Str(inv[t].value)>>
            /\ inv[t].op = "ts_add_create" =>
                /\ sent[t].name = "TS.ADD"
                /\ sent[t].args =
                    <<inv[t].key, ToStr(inv[t].ts), F64Str(inv[t].value)>>
                        \o TsOptions(inv[t].options).tokens
            /\ inv[t] = [op |-> "ts_add_create", key |-> "temp", ts |-> 1000,
                         value |-> 215, options |-> RetentionOnly] =>
                sent[t].args = <<"temp", "1000", "21.5", "RETENTION", "3600000">>

C6_Witness ==
    \E t \in Tasks :
        /\ Sent(t)
        /\ inv[t] = [op |-> "ts_add_create", key |-> "temp", ts |-> 1000,
                     value |-> 215, options |-> RetentionOnly]
        /\ sent[t] = [name |-> "TS.ADD", rejected |-> FALSE,
                      args |-> <<"temp", "1000", "21.5", "RETENTION", "3600000">>]

LoudReaders == {"ts_info", "ts_range", "ts_revrange", "ts_mrange", "ts_mrevrange"}

\* C7: for ts_info, ts_range, ts_revrange, ts_mrange and ts_mrevrange a
\* successful call whose reply the decoder does not accept (no reply that
\* is not an array is accepted) returns an error, never an empty or
\* default result.
C7_MalformedReplyFails ==
    \A t \in Tasks :
        (Done(t) /\ inv[t].op \in LoudReaders /\ reply[t].ok
            /\ (reply[t].v.t # "arr" \/ ~Decode(inv[t].op, reply[t].v).ok))
            => ~result[t].ok

C7_Witness ==
    \E t, u \in Tasks :
        /\ Done(t) /\ inv[t].op = "ts_mrange"
        /\ reply[t] = Ok(BulkString("OK")) /\ ~result[t].ok
        /\ Done(u) /\ inv[u].op = "ts_range"
        /\ reply[u] = Ok(Array(<<BulkString("temp"), BulkString("cpu")>>))
        /\ ~result[u].ok

C9_AlterNeverUncompressed ==
    \A t \in Tasks :
        (Sent(t) /\ inv[t].op = "ts_alter") =>
            /\ sent[t].name = "TS.ALTER"
            /\ "UNCOMPRESSED" \notin Elems(sent[t].args)
            /\ sent[t].args =
                ts_create_cmd(inv[t].key,
                    [inv[t].options EXCEPT !.uncompressed = Some(FALSE)]).args

C9_Witness ==
    \E t \in Tasks :
        /\ Sent(t) /\ inv[t].op = "ts_alter"
        /\ inv[t].options.uncompressed = Some(TRUE)
        /\ sent[t].args = <<inv[t].key, "RETENTION", "60000",
                            "DUPLICATE_POLICY", "last", "LABELS", "sensor", "a">>

\* C10: increment and decrement send the same arguments for the same
\* inputs and differ only in the command name: key, value, TIMESTAMP,
\* timestamp, then (the _create variants) the configuration tokens; the
\* _now variants send key and value and no TIMESTAMP token.
C10_IncrDecrSameArgs ==
    \A t \in Tasks :
        Sent(t) =>
            /\ inv[t].op \in {"ts_incrby", "ts_incrby_create", "ts_incrby_now"}
                => sent[t].name = "TS.INCRBY"
            /\ inv[t].op \in {"ts_decrby", "ts_decrby_create", "ts_decrby_now"}
                => sent[t].name = "TS.DECRBY"
            /\ inv[t].op \in {"ts_incrby", "ts_decrby"} =>
                sent[t].args = <<inv[t].key, F64Str(inv[t].value), "TIMESTAMP",
                                 ToStr(inv[t].ts)>>
            /\ inv[t].op \in {"ts_incrby_create", "ts_decrby_create"} =>
                sent[t].args = <<inv[t].key, F64Str(inv[t].value), "TIMESTAMP",
                                 ToStr(inv[t].ts)>>
                                    \o TsOptions(inv[t].options).tokens
            /\ inv[t].op \in {"ts_incrby_now", "ts_decrby_now"} =>
                /\ sent[t].args = <<inv[t].key, F64Str(inv[t].value)>>
                /\ "TIMESTAMP" \notin Elems(sent[t].args)

C10_Witness ==
    \E t, u \in Tasks :
        /\ Sent(t) /\ Sent(u)
        /\ inv[t].op = "ts_incrby" /\ inv[u].op = "ts_decrby"
        /\ inv[t].key = inv[u].key /\ inv[t].ts = inv[u].ts
        /\ inv[t].value = inv[u].value
        /\ sent[t].args = sent[u].args
        /\ sent[t].args = <<"temp", "21.5", "TIMESTAMP", "1000">>

====
